---- MODULE Spec2Model ----
(***************************************************************************)
(* podr-service: the resilient cached-fetch layer of src/src/index.ts.     *)
(*                                                                         *)
(* One worker instance: the module-level circuit breaker, the edge cache  *)
(* (caches.default), the requests the fetch handler is serving (each one   *)
(* suspended at one of its awaits), the background revalidations handed    *)
(* to ctx.waitUntil and the cache.put calls that were issued and have not  *)
(* completed yet.  Every action is one run of a handler between two        *)
(* awaits: the event loop never preempts it.                               *)
(***************************************************************************)
EXTENDS Integers, Sequences, FiniteSets, Bags, TLC

(***************************************************************************)
(* Program constants                                                       *)
(***************************************************************************)
SEARCH_LIMIT == 15
MAX_QUERY_LENGTH == 200
MIN_LIMIT == 1
MAX_LIMIT == 200
CACHE_TTL_SEARCH == 86400
CACHE_TTL_TOP == 7200
CACHE_TTL_PODCAST_DETAIL == 14400
CACHE_STALE_TOLERANCE == 86400
CIRCUIT_BREAKER_THRESHOLD == 5
CIRCUIT_BREAKER_RECOVERY_MS == 30000

(***************************************************************************)
(* Bounds of the model                                                     *)
(***************************************************************************)
\* distinct upstream response bodies
MaxVal == 2
\* the clock stops after this many ticks
MaxTicks == 2
\* no further upstream failure is delivered once failures reached this
MaxFailures == 6
\* background revalidations in flight at once
MaxReval == 1
\* cache.put calls pending at once
MaxPuts == 1
\* revalidations of one key in flight at once where duplicates are examined
DupRevals == 2
\* trackSearchQuery calls examined
MaxTrack == 2

\* the clock advances by one recovery window, so that an elapsed time of
\* exactly CIRCUIT_BREAKER_RECOVERY_MS occurs
TickMs == CIRCUIT_BREAKER_RECOVERY_MS
MaxTime == MaxTicks * TickMs

\* fetch invocations in flight at once: one when requests come one after
\* the other, two when they overlap
Slots == {1, 2}
SeqSlots == {1}
Vals == 1..MaxVal

\* the four orchestrator entry points; "detail" is podcastDetailRequest,
\* the only caller of cachedFetchViaProxy
Endpoints == {"search", "pi", "top", "detail"}

\* a behaviour serves requests of the endpoints of its scope; each
\* endpoint has one resource, so a cache key is an endpoint name
Scopes == {{e} : e \in Endpoints}
ConcScopes == {{"search"}, {"pi"}}

\* ages (seconds) the cache adapter reports in the age header
AgeSamples == <<0, 20000, 90000>>

\* upstream failure statuses and transport exception messages
FailStatuses == {403, 503}
ExnMsgs == {"Network error"}

(***************************************************************************)
(* Circuit breaker                                                         *)
(***************************************************************************)
circuitBreaker == [failures |-> 0, lastFailure |-> 0, state |-> "closed"]

\* isCircuitOpen without the transition to half-open
isCircuitOpen_stuck(b, t) ==
  IF b.state = "closed" THEN [ret |-> FALSE, cb |-> b]
  ELSE IF b.state = "open" THEN [ret |-> TRUE, cb |-> b]
       ELSE [ret |-> FALSE, cb |-> b]

\* the value returned and the breaker afterwards
isCircuitOpen(b, t) ==
  IF b.state = "closed" THEN [ret |-> FALSE, cb |-> b]
  ELSE IF b.state = "open"
       THEN IF t - b.lastFailure > CIRCUIT_BREAKER_RECOVERY_MS
            THEN [ret |-> FALSE, cb |-> [b EXCEPT !.state = "half-open"]]
            ELSE [ret |-> TRUE, cb |-> b]
       ELSE [ret |-> FALSE, cb |-> b]

\* recordFailure opening one failure late
recordFailure_late(b, t) ==
  [failures |-> b.failures + 1,
   lastFailure |-> t,
   state |-> IF b.failures + 1 > CIRCUIT_BREAKER_THRESHOLD THEN "open" ELSE b.state]

\* recordSuccess that resets the count and leaves the state
recordSuccess_keepState(b) == [b EXCEPT !.failures = 0]

\* recordSuccess that leaves an open breaker open
recordSuccess_notWhenOpen(b) ==
  IF b.state = "open" THEN b ELSE [b EXCEPT !.failures = 0, !.state = "closed"]

recordSuccess(b) == [b EXCEPT !.failures = 0, !.state = "closed"]

\* recordFailure opening one failure early
recordFailure_early(b, t) ==
  [failures |-> b.failures + 1,
   lastFailure |-> t,
   state |-> IF b.failures + 1 >= CIRCUIT_BREAKER_THRESHOLD - 1 THEN "open" ELSE b.state]

\* recordFailure stamping lastFailure only when it opens the breaker
recordFailure_stampOnOpen(b, t) ==
  [failures |-> b.failures + 1,
   lastFailure |-> IF b.failures + 1 = CIRCUIT_BREAKER_THRESHOLD THEN t ELSE b.lastFailure,
   state |-> IF b.failures + 1 >= CIRCUIT_BREAKER_THRESHOLD THEN "open" ELSE b.state]

recordFailure(b, t) ==
  [failures |-> b.failures + 1,
   lastFailure |-> t,
   state |-> IF b.failures + 1 >= CIRCUIT_BREAKER_THRESHOLD THEN "open" ELSE b.state]

\* n calls of recordFailure in a row, at time t
RECURSIVE recordFailures(_, _, _)
recordFailures(b, t, n) ==
  IF n = 0 THEN b ELSE recordFailures(recordFailure(b, t), t, n - 1)

(***************************************************************************)
(* Requests and validation                                                 *)
(***************************************************************************)
\* A query string value: absent, or a text of which the handler reads
\* only the length, whether one of SUSPICIOUS_PATTERNS matches it and
\* whether it is the reserved word 'toppodcasts'.
NoQ == [present |-> FALSE, len |-> 0, susp |-> FALSE, top |-> FALSE]
Term(n) == [present |-> TRUE, len |-> n, susp |-> FALSE, top |-> FALSE]
TopQ == [present |-> TRUE, len |-> 11, susp |-> FALSE, top |-> TRUE]
SuspQ == [present |-> TRUE, len |-> 8, susp |-> TRUE, top |-> FALSE]

\* A numeric parameter as parseInt reads it: absent, not a number, or n.
NoNum == [present |-> FALSE, nan |-> FALSE, n |-> 0]
NaNum == [present |-> TRUE, nan |-> TRUE, n |-> 0]
Num(k) == [present |-> TRUE, nan |-> FALSE, n |-> k]

\* ids of ITUNES_API_GENRES the model draws from
VALID_GENRE_IDS == {1301, 1326}

\* A request with the bindings of env it meets: rl is what RATE_LIMITER
\* answers, pi the podcastIndex flag, metrics what ANALYTICS.writeDataPoint
\* does, lake what ANALYTICS_LAKE.put does ("none": no binding), flag the
\* analyticsExport value in the FLAGS namespace.
BaseReq ==
  [method |-> "GET", path |-> "/", q |-> Term(4), limit |-> NoNum, genre |-> NoNum,
   rl |-> "none", pi |-> FALSE, ctx |-> TRUE,
   metrics |-> "ok", lake |-> "none", flag |-> "unset"]

\* requests that reach an orchestrator entry point
ValidRequests ==
  {BaseReq,
   [BaseReq EXCEPT !.pi = TRUE],
   [BaseReq EXCEPT !.q = TopQ],
   [BaseReq EXCEPT !.q = TopQ, !.ctx = FALSE],
   [BaseReq EXCEPT !.path = "/podcast/1", !.q = NoQ],
   [BaseReq EXCEPT !.path = "/podcast/1", !.q = NoQ, !.ctx = FALSE]}

\* the same, on a worker whose ANALYTICS.writeDataPoint throws
SinkFailRequests ==
  {[BaseReq EXCEPT !.metrics = "throws"],
   [BaseReq EXCEPT !.q = TopQ, !.metrics = "throws"],
   [BaseReq EXCEPT !.path = "/podcast/1", !.q = NoQ, !.metrics = "throws"]}

\* requests the handler answers itself
OtherRequests ==
  {[BaseReq EXCEPT !.method = "POST"],
   [BaseReq EXCEPT !.q = Term(MAX_QUERY_LENGTH + 1)],
   [BaseReq EXCEPT !.q = SuspQ],
   [BaseReq EXCEPT !.q = TopQ, !.limit = Num(0)],
   [BaseReq EXCEPT !.limit = Num(MAX_LIMIT + 1)],
   [BaseReq EXCEPT !.limit = NaNum],
   [BaseReq EXCEPT !.q = TopQ, !.genre = Num(9999)],
   [BaseReq EXCEPT !.genre = NaNum],
   [BaseReq EXCEPT !.path = "/search", !.q = NoQ],
   [BaseReq EXCEPT !.q = Term(0)],
   [BaseReq EXCEPT !.rl = "deny"],
   [BaseReq EXCEPT !.path = "/podcast/0", !.q = NoQ],
   [BaseReq EXCEPT !.q = NoQ],
   [BaseReq EXCEPT !.path = "/search", !.q = NoQ, !.metrics = "throws"]}

\* requests for the upstream that RATE_LIMITER denies
DeniedRequests ==
  {[BaseReq EXCEPT !.q = TopQ, !.rl = "deny"],
   [BaseReq EXCEPT !.path = "/podcast/1", !.q = NoQ, !.rl = "deny"]}

\* requests on a worker with the ANALYTICS_LAKE binding
LakeRequests ==
  {[BaseReq EXCEPT !.lake = "ok"],
   [BaseReq EXCEPT !.q = TopQ, !.lake = "ok", !.flag = "false"],
   [BaseReq EXCEPT !.path = "/podcast/1", !.q = NoQ, !.lake = "rejects", !.flag = "true"]}

Requests ==
  ValidRequests \cup SinkFailRequests \cup DeniedRequests \cup LakeRequests
    \cup OtherRequests

\* the error message, or "ok"
validateQuery(q) ==
  IF q.len > MAX_QUERY_LENGTH THEN "Query exceeds maximum length"
  ELSE IF q.susp THEN "Query contains invalid characters"
  ELSE "ok"

\* the validated limit, or 0 for the 400 response
validateLimit(l) ==
  IF ~l.present THEN SEARCH_LIMIT
  ELSE IF l.nan \/ l.n < MIN_LIMIT \/ l.n > MAX_LIMIT THEN 0
  ELSE l.n

\* genre is parseInt(param ?? '-1'): TRUE when the 400 response is returned
validateGenre(g) ==
  LET isDefault == ~g.present \/ (~g.nan /\ g.n = -1)
  IN ~isDefault /\ (g.nan \/ g.n \notin VALID_GENRE_IDS)

\* What fetch() does with a request before any orchestrator runs: the
\* response it returns by itself, or the entry point it calls.
\* tracked: trackMetrics is called before the response is returned.
Reply(status, msg) ==
  [kind |-> "reply", status |-> status, msg |-> msg, ep |-> "none", tracked |-> FALSE]
Tracked(status, msg) ==
  [kind |-> "reply", status |-> status, msg |-> msg, ep |-> "none", tracked |-> TRUE]
Call(ep) == [kind |-> "call", status |-> 0, msg |-> "", ep |-> ep, tracked |-> TRUE]

fetchDispatch(r) ==
  IF r.method # "GET" THEN Reply(405, "Unsupported")
  ELSE IF r.path = "/podcast/0" THEN Reply(400, "Invalid podcast ID")
  ELSE IF r.path = "/podcast/1" THEN Call("detail")
  ELSE IF r.rl = "deny" THEN Reply(429, "Rate limit exceeded")
  ELSE IF r.path = "/" /\ ~r.q.present THEN Tracked(200, "schema")
  ELSE IF r.q.present /\ r.q.len > 0 /\ validateQuery(r.q) # "ok"
       THEN Reply(400, validateQuery(r.q))
  ELSE IF validateLimit(r.limit) = 0 THEN Reply(400, "Limit must be between 1 and 200")
  ELSE IF validateGenre(r.genre) THEN Reply(400, "Invalid genre ID")
  ELSE IF r.q.top THEN Call("top")
  ELSE IF ~(r.q.present /\ r.q.len > 0)
       THEN Tracked(400, "Missing required query parameter: q")
  ELSE IF r.pi THEN Call("pi")
  ELSE Call("search")

(***************************************************************************)
(* Cache entries, upstream responses, results                              *)
(***************************************************************************)
\* a stored response: body value, whether the body parses as JSON, status,
\* the max-age of its Cache-Control header and the age the adapter reports
NoEntry == [val |-> 0, body |-> "none", status |-> 0, maxAge |-> 0, age |-> 0]

\* what the upstream transport delivers: a response or an exception
NoUp == [kind |-> "none", status |-> 0, val |-> 0, body |-> "none", msg |-> ""]
Upstream ==
  [kind : {"ok"}, status : {200}, val : Vals, body : {"good", "bad"}, msg : {""}]
    \cup [kind : {"status"}, status : FailStatuses, val : {0}, body : {"none"}, msg : {""}]
    \cup [kind : {"throw"}, status : {0}, val : {0}, body : {"none"}, msg : ExnMsgs]

\* response.ok true for every response
Ok_anyStatus(up) == up.kind # "throw"

\* response.ok
Ok(up) == up.kind = "ok" /\ up.status >= 200 /\ up.status <= 299

\* what an entry point returns ({data, cacheHit}) or throws
NoRes == [kind |-> "none", val |-> 0, body |-> "none", msg |-> ""]
Hit(e) == [kind |-> "hit", val |-> e.val, body |-> e.body, msg |-> ""]
Miss(up) == [kind |-> "miss", val |-> up.val, body |-> up.body, msg |-> ""]
Thrown(m) == [kind |-> "error", val |-> 0, body |-> "none", msg |-> m]

\* the HTTP response of the fetch handler
NoHttp == [status |-> 0, xcache |-> "", msg |-> "", val |-> 0]

cacheTtl(ep) ==
  CASE ep = "search" -> CACHE_TTL_SEARCH
    [] ep = "pi" -> CACHE_TTL_SEARCH
    [] ep = "top" -> CACHE_TTL_TOP
    [] ep = "detail" -> CACHE_TTL_PODCAST_DETAIL

\* responseToCache with the search TTL for every resource class
responseToCache_searchTtl(ep, up) ==
  [val |-> up.val,
   body |-> IF ep = "detail" THEN up.body ELSE "good",
   status |-> IF ep = "detail" THEN up.status ELSE 200,
   maxAge |-> CACHE_TTL_SEARCH,
   age |-> 0]

\* the response handed to cache.put: cachedFetchViaProxy and its
\* revalidation store the upstream response as received, the others a new
\* Response built from the parsed data
responseToCache(ep, up) ==
  [val |-> up.val,
   body |-> IF ep = "detail" THEN up.body ELSE "good",
   status |-> IF ep = "detail" THEN up.status ELSE 200,
   maxAge |-> cacheTtl(ep),
   age |-> 0]

\* serveStale without the test for a missing entry
serveStale_unchecked(e) == "hit"

\* circuit open: any cached entry is served, whatever its age
serveStale(e) == IF e # NoEntry THEN "hit" ELSE "unavailable"

\* shouldRevalidate comparing the age with the search TTL
shouldRevalidate_searchTtl(ep, ageSeconds, ctx) ==
  CASE ep = "top" ->
         ageSeconds > CACHE_TTL_SEARCH /\ ageSeconds < CACHE_STALE_TOLERANCE /\ ctx
    [] ep = "detail" ->
         ageSeconds > CACHE_TTL_SEARCH /\ ageSeconds < CACHE_STALE_TOLERANCE /\ ctx
    [] OTHER -> FALSE

\* the stale-while-revalidate test of topRequest and cachedFetchViaProxy;
\* searchRequest and podcastIndexSearch never revalidate
shouldRevalidate(ep, ageSeconds, ctx) ==
  CASE ep = "top" ->
         ageSeconds > CACHE_TTL_TOP /\ ageSeconds < CACHE_STALE_TOLERANCE /\ ctx
    [] ep = "detail" ->
         ageSeconds > CACHE_TTL_PODCAST_DETAIL /\ ageSeconds < CACHE_STALE_TOLERANCE /\ ctx
    [] OTHER -> FALSE

\* whether the cache lookup of a request whose circuit check passed ends
\* the request as a cache hit
servesCached(ep, e) == e # NoEntry

\* calls of recordFailure when the upstream call throws
failuresOnThrow(ep) ==
  CASE ep = "search" -> 0
    [] ep = "top" -> 0
    [] ep = "detail" -> 1
    [] ep = "pi" -> 1

\* failuresOnStatus with a count for the iTunes upstream only
failuresOnStatus_itunesOnly(ep) ==
  CASE ep = "search" -> 1
    [] ep = "top" -> 1
    [] ep = "detail" -> 1
    [] ep = "pi" -> 0

\* calls of recordFailure when the upstream answers with a failure status
failuresOnStatus(ep) ==
  CASE ep = "search" -> 1
    [] ep = "top" -> 1
    [] ep = "detail" -> 1
    [] ep = "pi" -> 2

\* storesResponse without the test of response.ok
storesResponse_anyStatus(ep, up) == up.kind # "throw"

\* whether the response of an upstream call is handed to cache.put
storesResponse(ep, up) == Ok(up)

\* the message of the Error thrown for an upstream failure status
statusError(ep, status) ==
  (IF ep = "pi" THEN "Podcast Index API error: " ELSE "iTunes API error: ")
    \o ToString(status)

\* the Error an entry point throws for a failed upstream call
upstreamError(ep, up) ==
  IF up.kind = "throw" THEN Thrown(up.msg) ELSE Thrown(statusError(ep, up.status))

\* respond with X-Cache: MISS on every 200 response
respond_alwaysMiss(res) ==
  IF res.kind = "error"
  THEN [status |-> 500, xcache |-> "", msg |-> res.msg, val |-> 0]
  ELSE [status |-> 200, xcache |-> "MISS", msg |-> "", val |-> res.val]

\* createResponseHeaders / createErrorResponse: the client's response
respond(res) ==
  IF res.kind = "error"
  THEN [status |-> 500, xcache |-> "", msg |-> res.msg, val |-> 0]
  ELSE [status |-> 200, xcache |-> IF res.kind = "hit" THEN "HIT" ELSE "MISS",
        msg |-> "", val |-> res.val]

\* the promise of fetch() rejects: the client gets no response of the worker
Rejected == [status |-> 0, xcache |-> "", msg |-> "writeDataPoint failed", val |-> 0]

\* trackMetrics: TRUE when it returns, FALSE when writeDataPoint throws
trackMetrics(input) == input.metrics # "throws"

\* exportAnalyticsEvent: what it does with the data lake
exportAnalyticsEvent(input) ==
  IF input.lake = "none" THEN <<>>
  ELSE IF input.lake = "ok" THEN <<"lakePut">>
  ELSE <<"lakePutRejected">>

\* fetch() once the entry point has returned res or thrown it: the
\* response and the observability calls made.  An exception of
\* trackMetrics is caught by the catch block, whose own trackMetrics
\* throws again, outside any try.
handle(input, res) ==
  IF res.kind = "error"
  THEN [http |-> IF trackMetrics(input) THEN respond(res) ELSE Rejected,
        obs |-> <<"writeDataPoint">>]
  ELSE IF ~trackMetrics(input)
       THEN [http |-> Rejected, obs |-> <<"writeDataPoint", "writeDataPoint">>]
       ELSE [http |-> respond(res),
             obs |-> <<"writeDataPoint">> \o
                       (IF input.lake # "none"
                        THEN <<"export">> \o exportAnalyticsEvent(input)
                        ELSE <<>>)]

(***************************************************************************)
(* Trend tracking: trackSearchQuery and the table search_queries           *)
(***************************************************************************)
TrackCalls == 1..MaxTrack

\* query strings as sequences of characters
TrackQueries ==
  {<<"T", "e">>, <<"t", "e", " ">>, <<"t", " ", " ", "e">>, <<"t">>}
\* request.cf.country, "none" when the request carries none
TrackCountries == {"us", "GB", "none"}
\* the day new Date() falls on
Dates == {"2024-01-01"}

toLowerCase(q) == [i \in DOMAIN q |-> IF q[i] = "T" THEN "t" ELSE q[i]]
RECURSIVE trimStart(_)
trimStart(q) ==
  IF q # <<>> /\ Head(q) = " " THEN trimStart(Tail(q)) ELSE q
RECURSIVE trimEnd(_)
trimEnd(q) ==
  IF q # <<>> /\ q[Len(q)] = " " THEN trimEnd(SubSeq(q, 1, Len(q) - 1)) ELSE q
\* replace(/\s+/g, ' ')
RECURSIVE collapse(_)
collapse(q) ==
  IF Len(q) < 2 THEN q
  ELSE IF q[1] = " " /\ q[2] = " " THEN collapse(Tail(q))
  ELSE <<Head(q)>> \o collapse(Tail(q))
normalizeQuery(q) == collapse(trimEnd(trimStart(toLowerCase(q))))
\* SHA-256 in hexadecimal: one digest per text
hashQuery(n) == <<"sha256", n>>
\* country?.toUpperCase() ?? null
normalizeCountry(c) ==
  CASE c = "us" -> "US"
    [] c = "none" -> "null"
    [] OTHER -> c

NoCall ==
  [pc |-> "idle", hash |-> <<>>, norm |-> <<>>, date |-> "", country |-> "", err |-> FALSE]

RECURSIVE SumCounts(_)
SumCounts(rows) ==
  IF rows = {} THEN 0
  ELSE LET r == CHOOSE x \in rows : TRUE IN r.count + SumCounts(rows \ {r})

(***************************************************************************)
(* State                                                                   *)
(***************************************************************************)
VARIABLES
  scope,    \* the endpoints this behaviour's requests use
  now,      \* Date.now()
  cb,       \* circuitBreaker
  cache,    \* caches.default: key -> entry
  puts,     \* cache.put calls issued and not completed
  revals,   \* revalidations registered with ctx.waitUntil, not finished
  req,      \* the fetch invocations, each suspended at an await
  db,       \* the rows of the D1 table search_queries
  trk       \* the trackSearchQuery calls

vars == <<scope, now, cb, cache, puts, revals, req, db, trk>>

\* A fetch invocation.  pc is the await it is suspended at; gate is the
\* breaker state its circuit check left, open what the check returned,
\* seen the result of its cache lookup, up what its upstream call
\* delivered, res what the entry point returned or threw, stored the
\* response it handed to cache.put, http the response to the client, log
\* the steps it performed, prev the response that the request served just
\* before it in its slot handed to cache.put for the same key, obs the
\* observability calls of the handler, sent the breaker state when its
\* upstream call was issued, settled and stamp the breaker state and
\* lastFailure when it returned.
Idle ==
  [pc |-> "idle", input |-> BaseReq, ep |-> "none", gate |-> "none", open |-> FALSE,
   seen |-> NoEntry, up |-> NoUp, res |-> NoRes, stored |-> NoEntry, http |-> NoHttp,
   log |-> <<>>, prev |-> NoEntry, obs |-> <<>>, sent |-> "none", settled |-> "none",
   stamp |-> 0]

Task(ep) == [ep |-> ep, stage |-> "fetch", val |-> 0, body |-> "none", settled |-> "none"]

Count(log, ev) == Cardinality({i \in DOMAIN log : log[i] = ev})

Init ==
  /\ db = {}
  /\ trk = [c \in TrackCalls |-> NoCall]
  /\ scope \in Scopes
  /\ now = 0
  /\ cb = circuitBreaker
  /\ cache = [k \in Endpoints |-> NoEntry]
  /\ puts = {}
  /\ revals = EmptyBag
  /\ req = [p \in Slots |-> Idle]

(***************************************************************************)
(* The fetch handler and the entry points                                  *)
(***************************************************************************)
\* FetchHandler that goes to the cache lookup without the circuit check
FetchHandler_lookupFirst(p, r) ==
  /\ UNCHANGED <<db, trk>>
  /\ req[p].pc \in {"idle", "done"}
  /\ LET d == fetchDispatch(r) IN
       IF d.kind = "reply"
       THEN /\ req' = [req EXCEPT ![p] =
                 [Idle EXCEPT !.pc = "done", !.input = r,
                    !.http = [status |-> d.status, xcache |-> "", msg |-> d.msg, val |-> 0]]]
            /\ UNCHANGED <<scope, now, cb, cache, puts, revals>>
       ELSE /\ d.ep \in scope
            /\ req' = [req EXCEPT ![p] =
                 [Idle EXCEPT !.pc = "match", !.input = r, !.ep = d.ep]]
            /\ UNCHANGED <<scope, now, cb, cache, puts, revals>>

\* fetch(): validation and routing, then the entry point up to its first
\* await: the circuit check, after which cache.match is pending.
FetchHandler(p, r) ==
  /\ UNCHANGED <<db, trk>>
  /\ req[p].pc \in {"idle", "done"}
  /\ LET d == fetchDispatch(r) IN
       IF d.kind = "reply"
       THEN /\ req' = [req EXCEPT ![p] =
                 [Idle EXCEPT !.pc = "done", !.input = r,
                    !.http = IF d.tracked /\ ~trackMetrics(r)
                             THEN Rejected
                             ELSE [status |-> d.status, xcache |-> "", msg |-> d.msg,
                                   val |-> 0],
                    !.obs = IF d.tracked THEN <<"writeDataPoint">> ELSE <<>>]]
            /\ UNCHANGED <<scope, now, cb, cache, puts, revals>>
       ELSE /\ d.ep \in scope
            /\ LET c == isCircuitOpen(cb, now) IN
                 /\ cb' = c.cb
                 /\ req' = [req EXCEPT ![p] =
                      [Idle EXCEPT !.pc = IF c.ret THEN "matchOpen" ELSE "match",
                         !.input = r, !.ep = d.ep, !.gate = c.cb.state, !.open = c.ret,
                         !.log = <<"circuit">>,
                         !.prev = IF req[p].pc = "done" /\ req[p].ep = d.ep
                                  THEN req[p].stored ELSE NoEntry]]
            /\ UNCHANGED <<scope, now, cache, puts, revals>>

\* circuit open: cache.match resolves; the entry is served whatever its
\* age, or the request fails fast
CacheLookupOpen(p) ==
  /\ UNCHANGED <<db, trk>>
  /\ req[p].pc = "matchOpen"
  /\ LET e == cache[req[p].ep]
         r == [req[p] EXCEPT !.seen = e, !.log = Append(@, "lookup")]
     IN IF serveStale(e) = "hit"
        THEN req' = [req EXCEPT ![p] = [r EXCEPT !.pc = "read", !.res = Hit(e)]]
        ELSE req' = [req EXCEPT ![p] =
               [r EXCEPT !.pc = "done",
                  !.res = Thrown("Service temporarily unavailable"),
                  !.http = handle(r.input, Thrown("Service temporarily unavailable")).http,
                  !.obs = handle(r.input, Thrown("Service temporarily unavailable")).obs]]
  /\ UNCHANGED <<scope, now, cb, cache, puts, revals>>

\* CacheLookup that consults the breaker again before the upstream call
CacheLookup_recheck(p) ==
  /\ UNCHANGED <<db, trk>>
  /\ req[p].pc = "match"
  /\ LET ep == req[p].ep
         e == cache[ep]
         r == [req[p] EXCEPT !.seen = e, !.log = Append(@, "lookup")]
     IN IF servesCached(ep, e)
        THEN IF shouldRevalidate(ep, e.age, r.input.ctx)
             THEN /\ BagCardinality(revals) < MaxReval
                  /\ revals' = revals (+) SetToBag({Task(ep)})
                  /\ req' = [req EXCEPT ![p] =
                       [r EXCEPT !.pc = "read", !.res = Hit(e), !.log = Append(@, "reval")]]
             ELSE /\ revals' = revals
                  /\ req' = [req EXCEPT ![p] = [r EXCEPT !.pc = "read", !.res = Hit(e)]]
        ELSE /\ revals' = revals
             /\ req' = [req EXCEPT ![p] =
                  IF cb.state = "open"
                  THEN [r EXCEPT !.pc = "done",
                          !.res = Thrown("Service temporarily unavailable"),
                          !.http = handle(r.input, Thrown("Service temporarily unavailable")).http,
                          !.obs = handle(r.input, Thrown("Service temporarily unavailable")).obs]
                  ELSE [r EXCEPT !.pc = "fetch", !.sent = cb.state,
                          !.log = Append(@, "upstream")]]
  /\ UNCHANGED <<scope, now, cb, cache, puts>>

\* circuit check passed: cache.match resolves; a cached entry is returned
\* (with a revalidation registered when it is stale), otherwise the
\* upstream call is issued
CacheLookup(p) ==
  /\ UNCHANGED <<db, trk>>
  /\ req[p].pc = "match"
  /\ LET ep == req[p].ep
         e == cache[ep]
         r == [req[p] EXCEPT !.seen = e, !.log = Append(@, "lookup")]
     IN IF servesCached(ep, e)
        THEN IF shouldRevalidate(ep, e.age, r.input.ctx)
             THEN /\ BagCardinality(revals) < MaxReval
                  /\ revals' = revals (+) SetToBag({Task(ep)})
                  /\ req' = [req EXCEPT ![p] =
                       [r EXCEPT !.pc = "read", !.res = Hit(e), !.log = Append(@, "reval")]]
             ELSE /\ revals' = revals
                  /\ req' = [req EXCEPT ![p] = [r EXCEPT !.pc = "read", !.res = Hit(e)]]
        ELSE /\ revals' = revals
             /\ req' = [req EXCEPT ![p] =
                  [r EXCEPT !.pc = "fetch", !.sent = cb.state,
                     !.log = Append(@, "upstream")]]
  /\ UNCHANGED <<scope, now, cb, cache, puts>>

\* the upstream call of a request settles.  cachedFetchViaProxy returns a
\* response with a failure status to podcastDetailRequest, which throws
\* the error; the other entry points throw it themselves.
UpstreamResolve(p, up) ==
  /\ UNCHANGED <<db, trk>>
  /\ req[p].pc = "fetch"
  /\ Ok(up) \/ cb.failures < MaxFailures
  /\ LET ep == req[p].ep
         r == [req[p] EXCEPT !.up = up, !.settled = cb.state, !.stamp = cb.lastFailure]
     IN CASE up.kind = "throw" ->
               /\ cb' = recordFailures(cb, now, failuresOnThrow(ep))
               /\ puts' = puts
               /\ req' = [req EXCEPT ![p] =
                    [r EXCEPT !.pc = "done", !.res = upstreamError(ep, up),
                       !.http = handle(r.input, upstreamError(ep, up)).http,
                       !.obs = handle(r.input, upstreamError(ep, up)).obs,
                       !.log = IF failuresOnThrow(ep) > 0 THEN Append(@, "recordFailure") ELSE @]]
          [] up.kind # "throw" /\ ~Ok(up) ->
               /\ cb' = recordFailures(cb, now, failuresOnStatus(ep))
               /\ puts' = IF storesResponse(ep, up)
                          THEN puts \cup {[key |-> ep, e |-> responseToCache(ep, up)]}
                          ELSE puts
               /\ req' = [req EXCEPT ![p] =
                    [r EXCEPT !.pc = "done",
                       !.res = IF ep = "detail" THEN Miss(up)
                               ELSE upstreamError(ep, up),
                       !.http = handle(r.input, upstreamError(ep, up)).http,
                       !.obs = handle(r.input, upstreamError(ep, up)).obs,
                       !.stored = IF storesResponse(ep, up)
                                  THEN responseToCache(ep, up) ELSE NoEntry,
                       !.log = Append(@, "recordFailure")]]
          [] Ok(up) ->
               /\ cb' = recordSuccess(cb)
               /\ IF ep = "detail" /\ storesResponse(ep, up)
                  THEN /\ Cardinality(puts) < MaxPuts
                       /\ puts' = puts \cup {[key |-> ep, e |-> responseToCache(ep, up)]}
                       /\ req' = [req EXCEPT ![p] =
                            [r EXCEPT !.pc = "read", !.res = Miss(up),
                               !.stored = responseToCache(ep, up),
                               !.log = @ \o <<"recordSuccess", "store">>]]
                  ELSE /\ puts' = puts
                       /\ req' = [req EXCEPT ![p] =
                            [r EXCEPT !.pc = "read", !.res = Miss(up),
                               !.log = Append(@, "recordSuccess")]]
  /\ UNCHANGED <<scope, now, cache, revals>>

\* response.json() settles: the data is returned to the handler, which
\* builds the client's response; searchRequest, topRequest and
\* podcastIndexSearch issue their cache.put here.  cachedFetchViaProxy
\* has returned before: the body is read by podcastDetailRequest, so res
\* stays what cachedFetchViaProxy returned.
BodyRead(p) ==
  /\ UNCHANGED <<db, trk>>
  /\ req[p].pc = "read"
  /\ LET ep == req[p].ep
         r == req[p]
         fresh == r.res.kind = "miss"
     IN IF r.res.body = "bad"
        THEN /\ cb' = IF ep = "pi" /\ fresh THEN recordFailure(cb, now) ELSE cb
             /\ puts' = puts
             /\ req' = [req EXCEPT ![p] =
                  [r EXCEPT !.pc = "done",
                     !.res = IF ep = "detail" THEN @ ELSE Thrown("Unexpected token"),
                     !.http = handle(r.input, Thrown("Unexpected token")).http,
                     !.obs = handle(r.input, Thrown("Unexpected token")).obs,
                     !.log = IF ep = "pi" /\ fresh THEN Append(@, "recordFailure") ELSE @]]
        ELSE /\ cb' = cb
             /\ IF fresh /\ ep # "detail" /\ storesResponse(ep, r.up)
                THEN /\ Cardinality(puts) < MaxPuts
                     /\ puts' = puts \cup {[key |-> ep, e |-> responseToCache(ep, r.up)]}
                     /\ req' = [req EXCEPT ![p] =
                          [r EXCEPT !.pc = "done", !.http = handle(r.input, r.res).http,
                             !.obs = handle(r.input, r.res).obs,
                             !.stored = responseToCache(ep, r.up),
                             !.log = Append(@, "store")]]
                ELSE /\ puts' = puts
                     /\ req' = [req EXCEPT ![p] =
                          [r EXCEPT !.pc = "done", !.http = handle(r.input, r.res).http,
                             !.obs = handle(r.input, r.res).obs]]
  /\ UNCHANGED <<scope, now, cache, revals>>

(***************************************************************************)
(* Background revalidation                                                 *)
(***************************************************************************)
\* the upstream call of a revalidation settles
RevalResolve(t, up) ==
  /\ UNCHANGED <<db, trk>>
  /\ BagIn(t, revals)
  /\ t.stage = "fetch"
  /\ Ok(up) \/ cb.failures < MaxFailures
  /\ IF Ok(up)
     THEN /\ cb' = recordSuccess(cb)
          /\ IF t.ep = "detail"
             THEN /\ Cardinality(puts) < MaxPuts
                  /\ puts' = puts \cup {[key |-> t.ep, e |-> responseToCache(t.ep, up)]}
                  /\ revals' = revals (-) SetToBag({t})
             ELSE /\ puts' = puts
                  /\ revals' = (revals (-) SetToBag({t}))
                                 (+) SetToBag({[t EXCEPT !.stage = "parse",
                                                  !.val = up.val, !.body = up.body,
                                                  !.settled = cb.state]})
     ELSE /\ cb' = recordFailure(cb, now)
          /\ puts' = puts
          /\ revals' = revals (-) SetToBag({t})
  /\ UNCHANGED <<scope, now, cache, req>>

\* revalidateTopPodcastsCache: response.json() settles
RevalParse(t) ==
  /\ UNCHANGED <<db, trk>>
  /\ BagIn(t, revals)
  /\ t.stage = "parse"
  /\ revals' = revals (-) SetToBag({t})
  /\ IF t.body = "bad"
     THEN /\ cb' = recordFailure(cb, now)
          /\ puts' = puts
     ELSE /\ Cardinality(puts) < MaxPuts
          /\ cb' = cb
          /\ puts' = puts \cup
               {[key |-> t.ep,
                 e |-> responseToCache(t.ep, [NoUp EXCEPT !.kind = "ok", !.status = 200,
                                                 !.val = t.val, !.body = t.body])]}
  /\ UNCHANGED <<scope, now, cache, req>>

(***************************************************************************)
(* Environment: the cache adapter and the clock                            *)
(***************************************************************************)
\* a cache.put that does not replace an entry already present
PutComplete_keepFirst(x) ==
  /\ UNCHANGED <<db, trk>>
  /\ x \in puts
  /\ cache' = IF cache[x.key] = NoEntry THEN [cache EXCEPT ![x.key] = x.e] ELSE cache
  /\ puts' = puts \ {x}
  /\ UNCHANGED <<scope, now, cb, revals, req>>

\* a cache.put completes: the entry of the key is replaced
PutComplete(x) ==
  /\ UNCHANGED <<db, trk>>
  /\ x \in puts
  /\ cache' = [cache EXCEPT ![x.key] = x.e]
  /\ puts' = puts \ {x}
  /\ UNCHANGED <<scope, now, cb, revals, req>>

\* a stored entry grows older
CacheAges(k) ==
  /\ UNCHANGED <<db, trk>>
  /\ cache[k] # NoEntry
  /\ \E i \in 1..(Len(AgeSamples) - 1) :
       /\ cache[k].age = AgeSamples[i]
       /\ cache' = [cache EXCEPT ![k].age = AgeSamples[i + 1]]
  /\ UNCHANGED <<scope, now, cb, puts, revals, req>>

\* The clock is read by isCircuitOpen in state open and stamped by
\* recordFailure: only the time elapsed since the failure that opened the
\* breaker decides anything, so the clock advances while it is open.
Tick ==
  /\ UNCHANGED <<db, trk>>
  /\ now < MaxTime
  /\ cb.state = "open"
  /\ now' = now + TickMs
  /\ UNCHANGED <<scope, cb, cache, puts, revals, req>>

Next ==
  \/ \E p \in SeqSlots, r \in Requests : FetchHandler(p, r)
  \/ \E p \in SeqSlots : CacheLookupOpen(p)
  \/ \E p \in SeqSlots : CacheLookup(p)
  \/ \E p \in SeqSlots, up \in Upstream : UpstreamResolve(p, up)
  \/ \E p \in SeqSlots : BodyRead(p)
  \/ \E t \in BagToSet(revals), up \in Upstream : RevalResolve(t, up)
  \/ \E t \in BagToSet(revals) : RevalParse(t)
  \/ \E x \in puts : PutComplete(x)
  \/ \E k \in Endpoints : CacheAges(k)
  \/ Tick

\* trackSearchQuery up to its first statement: the query is normalized
\* and dropped when too short or too long, otherwise the UPDATE is sent
TrackStart(c, q, country, d) ==
  /\ trk[c].pc = "idle"
  /\ LET n == normalizeQuery(q) IN
       IF Len(n) < 2 \/ Len(n) > 100
       THEN trk' = [trk EXCEPT ![c] = [NoCall EXCEPT !.pc = "skipped", !.norm = n]]
       ELSE trk' = [trk EXCEPT ![c] =
              [pc |-> "update", hash |-> hashQuery(n), norm |-> n, date |-> d,
               country |-> normalizeCountry(country), err |-> FALSE]]
  /\ UNCHANGED <<scope, now, cb, cache, puts, revals, req, db>>

\* UPDATE ... WHERE query_hash = ? AND date = ? AND country IS ? runs;
\* the INSERT follows when it wrote no row
TrackUpdate(c) ==
  /\ trk[c].pc = "update"
  /\ LET hit(r) == r.hash = trk[c].hash /\ r.date = trk[c].date
                      /\ r.country = trk[c].country
         rows_written == Cardinality({r \in db : hit(r)})
     IN /\ db' = {IF hit(r) THEN [r EXCEPT !.count = @ + 1] ELSE r : r \in db}
        /\ trk' = [trk EXCEPT ![c].pc = IF rows_written = 0 THEN "insert" ELSE "done"]
  /\ UNCHANGED <<scope, now, cb, cache, puts, revals, req>>

\* INSERT INTO search_queries runs: UNIQUE(query_hash, date) rejects a
\* second row of the query and day, and the catch block logs the error
TrackInsert(c) ==
  /\ trk[c].pc = "insert"
  /\ IF \E r \in db : r.hash = trk[c].hash /\ r.date = trk[c].date
     THEN /\ db' = db
          /\ trk' = [trk EXCEPT ![c].pc = "done", ![c].err = TRUE]
     ELSE /\ db' = db \cup {[hash |-> trk[c].hash, norm |-> trk[c].norm,
                               date |-> trk[c].date, country |-> trk[c].country,
                               count |-> 1]}
          /\ trk' = [trk EXCEPT ![c].pc = "done"]
  /\ UNCHANGED <<scope, now, cb, cache, puts, revals, req>>

\* requests one after the other, with revalidations and stores in the
\* background
Spec == Init /\ [][Next]_vars

\* overlapping requests
InitConc ==
  /\ db = {}
  /\ trk = [c \in TrackCalls |-> NoCall]
  /\ scope \in ConcScopes
  /\ now = 0
  /\ cb = circuitBreaker
  /\ cache = [k \in Endpoints |-> NoEntry]
  /\ puts = {}
  /\ revals = EmptyBag
  /\ req = [p \in Slots |-> Idle]

NextConc ==
  \/ \E p \in Slots, r \in ValidRequests : FetchHandler(p, r)
  \/ \E p \in Slots : CacheLookupOpen(p)
  \/ \E p \in Slots : CacheLookup(p)
  \/ \E p \in Slots, up \in Upstream : UpstreamResolve(p, up)
  \/ \E p \in Slots : BodyRead(p)
  \/ \E x \in puts : PutComplete(x)
  \/ Tick

SpecConc == InitConc /\ [][NextConc]_vars

\* duplicates: two overlapping searches that miss the cache, or two
\* revalidations of one stale entry registered by two earlier requests
DupScopes == {{"search"}, {"top"}, {"detail"}}
DupRequests == {BaseReq}
StaleEntry(k) ==
  [responseToCache(k, [NoUp EXCEPT !.kind = "ok", !.status = 200, !.val = 1,
                          !.body = "good"]) EXCEPT !.age = AgeSamples[2]]
RECURSIVE Copies(_, _)
Copies(t, n) == IF n = 0 THEN EmptyBag ELSE SetToBag({t}) (+) Copies(t, n - 1)

InitDup ==
  /\ db = {}
  /\ trk = [c \in TrackCalls |-> NoCall]
  /\ scope \in DupScopes
  /\ now = 0
  /\ cb = circuitBreaker
  /\ cache = [k \in Endpoints |->
                IF k \in scope /\ k # "search" THEN StaleEntry(k) ELSE NoEntry]
  /\ puts = {}
  /\ revals = IF scope = {"search"} THEN EmptyBag
              ELSE Copies(Task(CHOOSE k \in scope : TRUE), DupRevals)
  /\ req = [p \in Slots |-> Idle]

NextDup ==
  \/ \E p \in Slots, r \in DupRequests : FetchHandler(p, r)
  \/ \E p \in Slots : CacheLookupOpen(p)
  \/ \E p \in Slots : CacheLookup(p)
  \/ \E p \in Slots, up \in Upstream : UpstreamResolve(p, up)
  \/ \E p \in Slots : BodyRead(p)
  \/ \E t \in BagToSet(revals), up \in Upstream : RevalResolve(t, up)
  \/ \E t \in BagToSet(revals) : RevalParse(t)
  \/ \E x \in puts : PutComplete(x)
  \/ Tick

SpecDup == InitDup /\ [][NextDup]_vars

\* several resource classes on one instance: searches of iTunes and of
\* Podcast Index on an empty cache next to the top list, whose entry is
\* fresh, so that top requests never call the upstream
SharedScope == {"search", "pi", "top"}
SharedRequests ==
  {BaseReq, [BaseReq EXCEPT !.pi = TRUE], [BaseReq EXCEPT !.q = TopQ]}

InitShared ==
  /\ db = {}
  /\ trk = [c \in TrackCalls |-> NoCall]
  /\ scope = SharedScope
  /\ now = 0
  /\ cb = circuitBreaker
  /\ cache = [k \in Endpoints |->
                IF k = "top" THEN [StaleEntry(k) EXCEPT !.age = 0] ELSE NoEntry]
  /\ puts = {}
  /\ revals = EmptyBag
  /\ req = [p \in Slots |-> Idle]

NextShared ==
  \/ \E p \in SeqSlots, r \in SharedRequests : FetchHandler(p, r)
  \/ \E p \in SeqSlots : CacheLookupOpen(p)
  \/ \E p \in SeqSlots : CacheLookup(p)
  \/ \E p \in SeqSlots, up \in Upstream : UpstreamResolve(p, up)
  \/ \E p \in SeqSlots : BodyRead(p)
  \/ \E x \in puts : PutComplete(x)
  \/ Tick

SpecShared == InitShared /\ [][NextShared]_vars

\* an outage that is over when the clock first advances: the upstream
\* fails at time 0 only; requests keep arriving, every pending await
\* settles and time passes
LiveRequests == {BaseReq, [BaseReq EXCEPT !.pi = TRUE], [BaseReq EXCEPT !.q = TopQ],
                 [BaseReq EXCEPT !.path = "/podcast/1", !.q = NoQ]}

Arrival == \E p \in SeqSlots, r \in LiveRequests : FetchHandler(p, r)
Answer ==
  \E p \in SeqSlots, up \in Upstream : (Ok(up) \/ now = 0) /\ UpstreamResolve(p, up)

NextLive ==
  \/ Arrival
  \/ \E p \in SeqSlots : CacheLookupOpen(p)
  \/ \E p \in SeqSlots : CacheLookup(p)
  \/ Answer
  \/ \E p \in SeqSlots : BodyRead(p)
  \/ \E x \in puts : PutComplete(x)
  \/ Tick

SpecLive ==
  /\ Init
  /\ [][NextLive]_vars
  /\ WF_vars(Arrival)
  /\ WF_vars(\E p \in SeqSlots : CacheLookupOpen(p))
  /\ WF_vars(\E p \in SeqSlots : CacheLookup(p))
  /\ WF_vars(Answer)
  /\ WF_vars(\E p \in SeqSlots : BodyRead(p))
  /\ WF_vars(Tick)

\* trend tracking of searches that returned results
InitTrack ==
  /\ db = {}
  /\ trk = [c \in TrackCalls |-> NoCall]
  /\ scope = {"search"}
  /\ now = 0
  /\ cb = circuitBreaker
  /\ cache = [k \in Endpoints |-> NoEntry]
  /\ puts = {}
  /\ revals = EmptyBag
  /\ req = [p \in Slots |-> Idle]

NextTrack ==
  \/ \E c \in TrackCalls, q \in TrackQueries, country \in TrackCountries, d \in Dates :
       TrackStart(c, q, country, d)
  \/ \E c \in TrackCalls : TrackUpdate(c)
  \/ \E c \in TrackCalls : TrackInsert(c)

SpecTrack == InitTrack /\ [][NextTrack]_vars

TypeOK ==
  /\ cb.failures \in 0..(MaxFailures + 2)
  /\ cb.state \in {"closed", "open", "half-open"}
  /\ now \in 0..MaxTime

(***************************************************************************)
(* Properties                                                              *)
(***************************************************************************)
\* the request has received the result of its cache lookup
LookedUp(p) == req[p].pc \in {"fetch", "read", "done"} /\ req[p].ep # "none"
\* the entry point of the request has returned or thrown
Returned(p) ==
  /\ req[p].ep # "none"
  /\ \/ req[p].pc = "done"
     \/ req[p].pc = "read" /\ req[p].ep = "detail"
Failed(up) == up.kind \in {"status", "throw"}

\* C1: in every entry point, a request whose circuit check found the
\* breaker open and whose cache lookup found no entry fails with 'Service
\* temporarily unavailable' and has performed no upstream call, no cache
\* store and no recordSuccess/recordFailure.
C1_FailFast ==
  \A p \in Slots :
    (LookedUp(p) /\ req[p].open /\ req[p].seen = NoEntry) =>
      /\ req[p].pc = "done"
      /\ req[p].res = Thrown("Service temporarily unavailable")
      /\ req[p].log = <<"circuit", "lookup">>
      /\ req[p].stored = NoEntry
      /\ req[p].up = NoUp

C1_Witness ==
  \E p \in Slots :
    /\ req[p].pc = "done" /\ req[p].ep = "detail"
    /\ req[p].open /\ req[p].seen = NoEntry

\* C2: the recordFailure that brings failures to 5 or more leaves the
\* breaker open, and a request whose circuit check found it open (inside
\* the recovery window) and whose key has a cached entry, of any age, is
\* returned that entry as a cache hit without any upstream call.
C2_OpenServesCache ==
  /\ [][(cb'.failures > cb.failures /\ cb'.failures >= CIRCUIT_BREAKER_THRESHOLD)
          => cb'.state = "open"]_vars
  /\ [](\A p \in Slots :
          (LookedUp(p) /\ req[p].open /\ req[p].seen # NoEntry) =>
            /\ req[p].pc # "fetch"
            /\ Returned(p) => req[p].res = Hit(req[p].seen)
            /\ Count(req[p].log, "upstream") = 0
            /\ req[p].up = NoUp)

C2_Witness ==
  \E p \in Slots :
    /\ req[p].pc = "done" /\ req[p].open
    /\ req[p].seen # NoEntry /\ req[p].seen.age > CACHE_STALE_TOLERANCE
    /\ req[p].res.kind = "hit"
    /\ cb.state = "open" /\ cb.failures = CIRCUIT_BREAKER_THRESHOLD

\* C3: every request whose upstream call failed, by a failure status or
\* by a transport exception, has called recordFailure at least once when
\* it ends.
C3_FailureRecorded ==
  \A p \in Slots :
    (req[p].pc = "done" /\ Failed(req[p].up)) =>
      Count(req[p].log, "recordFailure") >= 1

\* C4: while the breaker is half-open (no probe outcome recorded yet), at
\* most one request admitted by the half-open circuit check has an
\* upstream call in flight.
C4_SingleProbe ==
  cb.state = "half-open" =>
    Cardinality({p \in Slots : req[p].pc = "fetch" /\ req[p].gate = "half-open"}) <= 1

\* C5: when the upstream call of a request admitted in half-open settles,
\* a 2xx response leaves state = closed and failures = 0, and a failure
\* (status or exception) leaves state = open with lastFailure = the time
\* of that failure.
C5_ProbeOutcome ==
  [][\A p \in Slots :
       (req[p].pc = "fetch" /\ req[p].gate = "half-open" /\ req'[p].pc # "fetch") =>
         /\ Ok(req'[p].up) => (cb'.state = "closed" /\ cb'.failures = 0)
         /\ Failed(req'[p].up) => (cb'.state = "open" /\ cb'.lastFailure = now)]_vars

\* C6 as stated: with the breaker closed and no cached entry, a request
\* whose upstream call returns 2xx (a JSON body) is a cache miss and stores
\* the response with max-age = the class TTL, and the request issued right
\* after it has returned is a cache hit without upstream call.
C6_Original ==
  \A p \in Slots :
    /\ (req[p].pc = "done" /\ req[p].gate = "closed" /\ req[p].seen = NoEntry
          /\ Ok(req[p].up) /\ req[p].up.body = "good") =>
         /\ req[p].res = Miss(req[p].up)
         /\ req[p].stored # NoEntry
         /\ req[p].stored.maxAge = cacheTtl(req[p].ep)
    /\ (LookedUp(p) /\ req[p].prev # NoEntry) =>
         /\ req[p].seen # NoEntry
         /\ Count(req[p].log, "upstream") = 0

\* C6 amended: with the breaker closed and no cached entry, a request whose
\* upstream call returns 2xx (with a body that parses as JSON, for the
\* entry points that parse it) is a cache miss and hands the response to
\* one cache.put with max-age = the class TTL (searchRequest, topRequest
\* and podcastIndexSearch throw and store nothing when the body does not
\* parse); the request issued right after it is a cache hit without
\* upstream call when its lookup finds the entry (the put has completed),
\* and calls the upstream again when the put is still pending at its
\* lookup and its circuit check passed.
C6_MissThenHit ==
  \A p \in Slots :
    /\ (req[p].pc = "done" /\ req[p].gate = "closed" /\ req[p].seen = NoEntry
          /\ Ok(req[p].up) /\ req[p].ep # "detail" /\ req[p].up.body = "bad") =>
         /\ req[p].res.kind = "error"
         /\ req[p].stored = NoEntry
         /\ Count(req[p].log, "store") = 0
    /\ (req[p].pc = "done" /\ req[p].gate = "closed" /\ req[p].seen = NoEntry
          /\ Ok(req[p].up) /\ (req[p].ep = "detail" \/ req[p].up.body = "good")) =>
         /\ req[p].res = Miss(req[p].up)
         /\ req[p].stored.val = req[p].up.val
         /\ req[p].stored.maxAge = cacheTtl(req[p].ep)
         /\ Count(req[p].log, "store") = 1
    /\ (LookedUp(p) /\ req[p].prev # NoEntry /\ req[p].seen # NoEntry) =>
         /\ req[p].pc # "fetch"
         /\ Returned(p) => req[p].res = Hit(req[p].seen)
         /\ Count(req[p].log, "upstream") = 0
    /\ (LookedUp(p) /\ req[p].prev # NoEntry /\ req[p].seen = NoEntry /\ ~req[p].open) =>
         Count(req[p].log, "upstream") = 1

C6_Witness ==
  \E p \in Slots :
    /\ req[p].pc = "done" /\ req[p].ep = "top"
    /\ req[p].prev # NoEntry /\ req[p].prev.maxAge = CACHE_TTL_TOP
    /\ req[p].seen = req[p].prev
    /\ req[p].res.kind = "hit" /\ req[p].http.xcache = "HIT"

\* the entry is stale for stale-while-revalidate
Stale(ep, e) == e # NoEntry /\ e.age > cacheTtl(ep) /\ e.age < CACHE_STALE_TOLERANCE

\* C7 as stated: in topRequest and cachedFetchViaProxy, with a scheduling
\* context and a cached entry of age between the TTL and the staleness
\* tolerance, the request returns the entry as a cache hit without
\* upstream call, registers exactly one revalidation, and returns the
\* entry as it was at lookup.
C7_Original ==
  \A p \in Slots :
    (Returned(p) /\ req[p].ep \in {"top", "detail"} /\ req[p].input.ctx
       /\ Stale(req[p].ep, req[p].seen)) =>
      /\ req[p].res = Hit(req[p].seen)
      /\ Count(req[p].log, "reval") = 1
      /\ Count(req[p].log, "upstream") = 0

\* C7 amended: the same, for a request whose circuit check passed (the
\* breaker was not open inside its recovery window); a request whose
\* circuit check found the breaker open returns the entry as a cache hit
\* and registers no revalidation.
C7_StaleWhileRevalidate ==
  \A p \in Slots :
    (Returned(p) /\ req[p].ep \in {"top", "detail"} /\ req[p].input.ctx
       /\ Stale(req[p].ep, req[p].seen)) =>
      /\ req[p].res = Hit(req[p].seen)
      /\ Count(req[p].log, "reval") = IF req[p].open THEN 0 ELSE 1
      /\ Count(req[p].log, "upstream") = 0
      /\ req[p].pc = "done" /\ req[p].http.status = 200
           => req[p].http = respond(Hit(req[p].seen))

\* the revalidation has replaced the entry before the request returned
C7_Witness ==
  \E p \in Slots :
    /\ req[p].pc = "done" /\ req[p].ep = "top" /\ req[p].input.ctx
    /\ Stale("top", req[p].seen) /\ ~req[p].open
    /\ Count(req[p].log, "reval") = 1
    /\ cache["top"].val # req[p].seen.val
    /\ req[p].http.val = req[p].seen.val

\* C8: with the breaker closed, a lookup that finds an entry older than
\* the staleness tolerance is a cache miss: the upstream is called and the
\* entry is not returned as a hit.
C8_OverAgeIsMiss ==
  \A p \in Slots :
    (LookedUp(p) /\ req[p].gate = "closed" /\ req[p].seen # NoEntry
       /\ req[p].seen.age > CACHE_STALE_TOLERANCE) =>
      /\ req[p].res.kind # "hit"
      /\ Count(req[p].log, "upstream") = 1

\* C9: every response handed to cache.put, pending or completed, has a
\* 2xx status, and the step in which the upstream call of a request fails,
\* or in which a request or a revalidation records a failure, changes
\* neither the cache nor the pending stores.
C9_OnlySuccessStored ==
  /\ [](/\ \A x \in puts : x.e.status >= 200 /\ x.e.status <= 299
        /\ \A k \in Endpoints :
             cache[k] # NoEntry => (cache[k].status >= 200 /\ cache[k].status <= 299))
  /\ [][\A p \in Slots :
          (req[p].pc = "fetch" /\ req'[p].pc # "fetch" /\ Failed(req'[p].up)) =>
            /\ cache' = cache
            /\ puts' = puts
            /\ req'[p].stored = NoEntry]_vars
  /\ [][cb'.failures > cb.failures => (cache' = cache /\ puts' = puts)]_vars

\* a failed call ended while the key had an entry, stored by an earlier
\* request whose put completed during the call
C9_Witness ==
  \E p \in Slots :
    /\ req[p].pc = "done" /\ Failed(req[p].up)
    /\ req[p].seen = NoEntry
    /\ cache[req[p].ep] # NoEntry

\* what the claim calls rejected by validation
RejectedByValidation(r) ==
  \/ r.method # "GET"
  \/ /\ r.path \in {"/", "/search"}
     /\ \/ r.q.len > MAX_QUERY_LENGTH
        \/ r.q.susp
        \/ r.limit.present /\ (r.limit.nan \/ r.limit.n < 1 \/ r.limit.n > 200)
        \/ r.genre.present /\ (r.genre.nan \/ r.genre.n \notin VALID_GENRE_IDS)
        \/ ~r.q.present /\ r.path # "/"

\* C10: a request rejected by validation is answered at once with a 4xx
\* status, without upstream call or cache access, and leaves the breaker,
\* the cache, the pending stores and the revalidations unchanged.
C10_ValidationNoEffect ==
  [][\A p \in Slots :
       (req[p].pc \in {"idle", "done"} /\ req'[p] # req[p]
          /\ RejectedByValidation(req'[p].input)) =>
         /\ req'[p].pc = "done"
         /\ req'[p].http.status >= 400 /\ req'[p].http.status <= 499
         /\ req'[p].log = <<>>
         /\ req'[p].seen = NoEntry /\ req'[p].up = NoUp
         /\ cb' = cb /\ cache' = cache /\ puts' = puts /\ revals' = revals]_vars

\* the request went to an entry point, whose upstream call failed with a
\* status >= 400 or an exception
UpstreamFailed(p) ==
  /\ req[p].pc = "done" /\ req[p].ep # "none"
  /\ \/ req[p].up.kind = "throw"
     \/ req[p].up.kind = "status" /\ req[p].up.status >= 400

\* C11: a search, top-podcasts or podcast-detail request whose upstream
\* call returned a status >= 400 or threw is answered by the fetch handler
\* with an HTTP 500 response: the handler does not reject and does not
\* answer 200.
C11_UpstreamErrorIs500 ==
  \A p \in Slots : UpstreamFailed(p) => req[p].http.status = 500

\* C12: the 500 response for a failed upstream call is the same whatever
\* the upstream status or the exception message: it equals the response
\* the handler gives the same request for any other upstream failure.
C12_GenericErrorBody ==
  \A p \in Slots :
    (UpstreamFailed(p) /\ req[p].http.status = 500) =>
      \A up2 \in Upstream :
        Failed(up2) => handle(req[p].input, upstreamError(req[p].ep, up2)).http = req[p].http

\* C13: a 200 response to a search, top-podcasts or podcast-detail request
\* carries X-Cache: HIT exactly when the request made no upstream call and
\* its data is the cached entry it looked up (circuit open and stale hits
\* included), and X-Cache: MISS exactly when the request called the
\* upstream itself, its data being the upstream's.
C13_XCacheHeader ==
  \A p \in Slots :
    (req[p].pc = "done" /\ req[p].ep # "none" /\ req[p].http.status = 200) =>
      /\ req[p].http.xcache \in {"HIT", "MISS"}
      /\ req[p].http.xcache = "HIT" <=>
           (Count(req[p].log, "upstream") = 0 /\ req[p].seen # NoEntry)
      /\ req[p].http.xcache = "HIT" => req[p].http.val = req[p].seen.val
      /\ req[p].http.xcache = "MISS" <=>
           (Count(req[p].log, "upstream") = 1 /\ req[p].up.kind = "ok")
      /\ req[p].http.xcache = "MISS" => req[p].http.val = req[p].up.val

\* degraded mode: the breaker was open and an over-age entry was served
C13_Witness ==
  \E p \in Slots :
    /\ req[p].pc = "done" /\ req[p].http.status = 200
    /\ req[p].http.xcache = "HIT"
    /\ req[p].open /\ req[p].seen.age > CACHE_STALE_TOLERANCE
    /\ req[p].ep = "pi"

\* C14: a request that RATE_LIMITER denies and that would reach an entry
\* point if it were allowed (search, top podcasts, podcast detail) is
\* answered 429 'Rate limit exceeded', without cache lookup or upstream
\* call, and leaves the breaker unchanged.
C14_RateLimited ==
  [][\A p \in Slots :
       (req[p].pc \in {"idle", "done"} /\ req'[p] # req[p]
          /\ req'[p].input.rl = "deny"
          /\ fetchDispatch([req'[p].input EXCEPT !.rl = "none"]).kind = "call") =>
         /\ req'[p].pc = "done"
         /\ req'[p].http.status = 429
         /\ req'[p].http.msg = "Rate limit exceeded"
         /\ req'[p].log = <<>>
         /\ req'[p].seen = NoEntry /\ req'[p].up = NoUp
         /\ cb' = cb /\ cache' = cache /\ puts' = puts /\ revals' = revals]_vars

\* the handler has answered 200 from the result of an entry point, or
\* would have but for a failed observability write
Succeeded(p) ==
  /\ req[p].pc = "done"
  /\ req[p].res.kind \in {"hit", "miss"}
  /\ req[p].res.body = "good"

\* C15: a request whose entry point returned data gets the 200 response
\* built from that result, whether or not ANALYTICS.writeDataPoint throws or
\* the ANALYTICS_LAKE put rejects: the handler does not reject.
C15_SinkFailureHarmless ==
  \A p \in Slots : Succeeded(p) => req[p].http = respond(req[p].res)

\* C16: with the analyticsExport flag unset or 'false', a request neither
\* schedules exportAnalyticsEvent nor writes to ANALYTICS_LAKE, even when the
\* binding exists.
C16_ExportBehindFlag ==
  \A p \in Slots :
    (req[p].pc = "done" /\ req[p].input.flag \in {"unset", "false"}) =>
      /\ Count(req[p].obs, "export") = 0
      /\ Count(req[p].obs, "lakePut") = 0
      /\ Count(req[p].obs, "lakePutRejected") = 0

\* C17: in every reachable state, state = open implies failures >= 5.
C17_OpenImpliesThreshold ==
  cb.state = "open" => cb.failures >= CIRCUIT_BREAKER_THRESHOLD

\* the breaker was reopened by the failure of a half-open probe
C17_Witness ==
  /\ cb.state = "open"
  /\ cb.failures > CIRCUIT_BREAKER_THRESHOLD
  /\ cb.lastFailure > CIRCUIT_BREAKER_RECOVERY_MS

\* a put for key k with the data val is pending
Storing(k, val) == \E x \in puts : x.key = k /\ x.e.val = val /\ x.e.status = 200

\* what C18 says of a revalidation whose upstream call fails, and of the
\* completion of a put
RevalFailureFrame ==
  /\ [][\A t \in BagToSet(revals), up \in Upstream :
          (RevalResolve(t, up) /\ Failed(up)) =>
            /\ cb' = recordFailure(cb, now)
            /\ cache' = cache /\ puts' = puts
            /\ revals' = revals (-) SetToBag({t})
            /\ req' = req]_vars
  /\ [][\A x \in puts : PutComplete(x) => cache'[x.key] = x.e]_vars

C19_OneRecordPerCall ==
  /\ [][\A p \in Slots :
          (req[p].pc = "fetch" /\ req'[p].pc # "fetch") =>
            /\ Failed(req'[p].up) => cb' = recordFailure(cb, now)
            /\ req'[p].up.kind = "ok" => cb' = recordSuccess(cb)]_vars
  /\ [][\A p \in Slots : (req[p].pc = "read" /\ req'[p].pc # "read") => cb' = cb]_vars
  /\ [][\A t \in BagToSet(revals), up \in Upstream :
          RevalResolve(t, up) =>
            cb' = IF up.kind = "ok" THEN recordSuccess(cb) ELSE recordFailure(cb, now)]_vars
  /\ [][\A t \in BagToSet(revals) : RevalParse(t) => cb' = cb]_vars

\* C20: the circuit check of a request that finds state = open moves the
\* breaker to half-open and returns false exactly when now - lastFailure
\* >= 30000 ms; for a shorter elapsed time it returns true and leaves the
\* breaker unchanged.
C20_RecoveryBoundary ==
  [][\A p \in Slots :
       (req[p].pc \in {"idle", "done"} /\ req'[p].pc \in {"match", "matchOpen"}
          /\ cb.state = "open") =>
         IF now - cb.lastFailure >= CIRCUIT_BREAKER_RECOVERY_MS
         THEN cb' = [cb EXCEPT !.state = "half-open"] /\ ~req'[p].open
         ELSE cb' = cb /\ req'[p].open]_vars

\* C21: without a scheduling context, a request of topRequest or
\* cachedFetchViaProxy whose circuit check passed and that finds an entry
\* of age between the TTL and the staleness tolerance refreshes it in the
\* request: it has called the upstream and handed the response to
\* cache.put when it returns.
C21_SyncRefreshWithoutCtx ==
  \A p \in Slots :
    (Returned(p) /\ req[p].ep \in {"top", "detail"} /\ ~req[p].input.ctx
       /\ ~req[p].open /\ Stale(req[p].ep, req[p].seen)) =>
      /\ Count(req[p].log, "upstream") = 1
      /\ req[p].up # NoUp

\* the position of the first ev in log, 0 when it has none
RECURSIVE Pos(_, _)
Pos(log, ev) ==
  IF log = <<>> THEN 0
  ELSE IF Head(log) = ev THEN 1
  ELSE IF Pos(Tail(log), ev) = 0 THEN 0
  ELSE Pos(Tail(log), ev) + 1

\* C22 as stated: within a request the cache check comes first and the
\* circuit check after it.
C22_Original ==
  \A p \in Slots :
    Pos(req[p].log, "circuit") > 0 =>
      /\ Pos(req[p].log, "lookup") > 0
      /\ Pos(req[p].log, "lookup") < Pos(req[p].log, "circuit")

\* the place of a step in the order of C22 amended
Rank(ev) ==
  CASE ev = "circuit" -> 1
    [] ev = "lookup" -> 2
    [] ev \in {"reval", "upstream"} -> 3
    [] ev \in {"recordSuccess", "recordFailure"} -> 4
    [] ev = "store" -> 5

\* C22 amended: within a request the steps occur in the order circuit
\* check, cache lookup, upstream call, cache store, each at most once and
\* each after the previous one has completed: the lookup follows the
\* circuit check, the upstream call follows a lookup that found nothing,
\* the store is issued after the upstream call has returned 2xx (the
\* request does not wait for the store to complete).
C22_StepOrder ==
  \A p \in Slots :
    /\ \A i, j \in DOMAIN req[p].log :
         i < j => \/ Rank(req[p].log[i]) < Rank(req[p].log[j])
                  \/ Rank(req[p].log[i]) = 4 /\ Rank(req[p].log[j]) = 4
    /\ LookedUp(p) => (req[p].log[1] = "circuit" /\ req[p].log[2] = "lookup")
    /\ Pos(req[p].log, "upstream") > 0 =>
         (req[p].log[3] = "upstream" /\ req[p].seen = NoEntry /\ ~req[p].open)
    /\ Pos(req[p].log, "store") > 0 =>
         (Pos(req[p].log, "upstream") > 0 /\ Ok(req[p].up)
            /\ req[p].stored = responseToCache(req[p].ep, req[p].up))

C22_Witness ==
  \E p \in Slots :
    /\ req[p].pc = "done" /\ req[p].ep = "top"
    /\ req[p].gate = "half-open"
    /\ req[p].log = <<"circuit", "lookup", "upstream", "recordSuccess", "store">>

\* an entry as cache.put writes it for key k
Complete(k, e) == \E up \in Upstream : Ok(up) /\ e = responseToCache(k, up)

C24_UpsertLosesNoSearch ==
  /\ \A c \in TrackCalls : ~trk[c].err
  /\ \A c \in TrackCalls :
       trk[c].pc = "done" =>
         SumCounts({r \in db : r.hash = trk[c].hash /\ r.date = trk[c].date})
           = Cardinality({x \in TrackCalls :
                trk[x].pc = "done" /\ trk[x].hash = trk[c].hash
                  /\ trk[x].date = trk[c].date})

\* C25: in every reachable state the breaker is closed if and only if
\* fewer than CIRCUIT_BREAKER_THRESHOLD failures are counted (so open and
\* half-open both imply at least that many), and the count is never
\* negative.
C25_ClosedIffBelowThreshold ==
  /\ cb.state \in {"closed", "open", "half-open"}
  /\ cb.state = "closed" <=> cb.failures < CIRCUIT_BREAKER_THRESHOLD
  /\ cb.failures >= 0

\* the breaker has turned half-open, its count still at the threshold
C25_Witness ==
  /\ cb.state = "half-open"
  /\ cb.failures >= CIRCUIT_BREAKER_THRESHOLD
  /\ \E p \in Slots : req[p].gate = "half-open" /\ req[p].pc = "fetch"

\* C26: the circuit check is not repeated after the cache lookup.  A
\* request whose circuit check returned false and whose lookup finds
\* nothing to serve issues its upstream call whatever the state of the
\* breaker is by then, so that upstream calls are issued while the
\* breaker is open inside the recovery window.
C26_NoRecheck ==
  /\ [](\A p \in Slots : req[p].pc = "fetch" => ~req[p].open)
  /\ [][\A p \in Slots :
          (req[p].pc = "match" /\ req'[p] # req[p]
             /\ ~servesCached(req[p].ep, cache[req[p].ep])) =>
            /\ req'[p].pc = "fetch"
            /\ req'[p].sent = cb.state
            /\ req'[p].log = Append(Append(req[p].log, "lookup"), "upstream")]_vars

\* a request that passed the check of the closed breaker has issued its
\* upstream call with the breaker open, inside the recovery window
C26_Witness ==
  \E p \in Slots :
    /\ req[p].pc = "fetch"
    /\ req[p].gate = "closed"
    /\ req[p].sent = "open"
    /\ cb.state = "open"
    /\ now - cb.lastFailure <= CIRCUIT_BREAKER_RECOVERY_MS

\* C27: the breaker can leave open without passing through half-open.
\* An upstream call that returns 2xx closes the breaker and resets the
\* count whatever the state was, so a call in flight when the breaker
\* opened closes it inside the recovery window; the open breaker is left
\* either that way or by the half-open transition after the window; and
\* a request that finds the breaker closed goes on to the lookup and the
\* upstream.
C27_ClosedFromOpen ==
  /\ [][\A p \in Slots :
          (req[p].pc = "fetch" /\ req'[p].pc = "read") =>
            (cb'.state = "closed" /\ cb'.failures = 0 /\ req'[p].settled = cb.state)]_vars
  /\ [][\A t \in BagToSet(revals), up \in Upstream :
          (RevalResolve(t, up) /\ Ok(up)) => (cb'.state = "closed" /\ cb'.failures = 0)]_vars
  /\ [][(cb.state = "open" /\ cb'.state # "open") =>
          \/ cb' = [cb EXCEPT !.state = "closed", !.failures = 0]
          \/ /\ cb' = [cb EXCEPT !.state = "half-open"]
             /\ now - cb.lastFailure > CIRCUIT_BREAKER_RECOVERY_MS]_vars
  /\ [][\A p \in Slots :
          (cb.state = "closed" /\ req[p].pc \in {"idle", "done"}
             /\ req'[p].pc \notin {"idle", "done"}) =>
            (req'[p].pc = "match" /\ ~req'[p].open)]_vars

\* a call in flight since before the breaker opened has returned 2xx and
\* closed it inside the recovery window, and the next request has reached
\* the upstream
C27_Witness ==
  \E p, q \in Slots :
    /\ req[p].pc = "read" /\ req[p].gate = "closed" /\ req[p].settled = "open"
    /\ Ok(req[p].up)
    /\ cb.state = "closed" /\ cb.failures = 0
    /\ now - cb.lastFailure <= CIRCUIT_BREAKER_RECOVERY_MS
    /\ q # p /\ req[q].pc = "fetch" /\ req[q].gate = "closed" /\ req[q].sent = "closed"

\* C28: every recordFailure stamps lastFailure, whatever the state, and
\* nothing else changes it; the open breaker turns half-open only when
\* more than CIRCUIT_BREAKER_RECOVERY_MS have passed since lastFailure.
\* A failure recorded while the breaker is open so restarts the recovery
\* window.
C28_EveryFailureStamps ==
  /\ [][cb'.failures > cb.failures => cb'.lastFailure = now]_vars
  /\ [][cb'.lastFailure # cb.lastFailure => cb'.failures > cb.failures]_vars
  /\ [][cb'.state = "half-open" /\ cb.state # "half-open" =>
          /\ cb.state = "open"
          /\ now - cb.lastFailure > CIRCUIT_BREAKER_RECOVERY_MS
          /\ cb'.lastFailure = cb.lastFailure]_vars
  /\ [](\A p \in Slots :
          (req[p].pc = "done" /\ req[p].settled = "open" /\ Failed(req[p].up)
             /\ cb.state = "open") => cb.lastFailure >= req[p].stamp)

\* a call in flight since the breaker was closed failed one window after
\* the breaker opened: two windows after the opening a circuit check
\* still finds the breaker open
C28_Witness ==
  \E p \in Slots :
    /\ req[p].pc = "done" /\ req[p].gate = "closed"
    /\ Failed(req[p].up) /\ req[p].settled = "open" /\ req[p].stamp = 0
    /\ cb.state = "open" /\ cb.lastFailure = TickMs
    /\ now = 2 * TickMs
    /\ isCircuitOpen(cb, now).ret

\* C29: one breaker serves every resource class and both upstreams.  A
\* failed upstream call of any class adds to the one count, and the count
\* reaching CIRCUIT_BREAKER_THRESHOLD opens the breaker; while it is open
\* inside the recovery window a request of any class performs no upstream
\* call and is served from cache or fails fast; a 2xx upstream response to
\* a request of any class closes it, and a request of any class that
\* finds it closed passes the check.
C29_SharedBreaker ==
  /\ [](\A p \in Slots :
          (Returned(p) /\ req[p].open) =>
            /\ Count(req[p].log, "upstream") = 0
            /\ \/ req[p].res = Thrown("Service temporarily unavailable")
               \/ req[p].res.kind = "hit" /\ req[p].seen # NoEntry)
  /\ [][\A p \in Slots :
          (req[p].pc \in {"idle", "done"} /\ req'[p].pc \notin {"idle", "done"}) =>
            /\ req'[p].ep \in scope
            /\ (cb.state = "open" /\ now - cb.lastFailure <= CIRCUIT_BREAKER_RECOVERY_MS)
                  => (req'[p].pc = "matchOpen" /\ req'[p].open)
            /\ cb.state = "closed" => (req'[p].pc = "match" /\ ~req'[p].open)]_vars
  /\ [][\A p \in Slots :
          (req[p].pc = "fetch" /\ req'[p].pc = "done" /\ req'[p].up.kind = "status") =>
            /\ cb'.failures > cb.failures
            /\ cb'.failures >= CIRCUIT_BREAKER_THRESHOLD => cb'.state = "open"]_vars
  /\ [][\A p \in Slots :
          (req[p].pc = "fetch" /\ req'[p].pc = "read") =>
            (cb'.state = "closed" /\ cb'.failures = 0)]_vars

\* the top list, which never called the upstream, is served from cache by
\* the open circuit: the failures counted are those of the searches
C29_Witness ==
  \E p \in Slots :
    /\ req[p].pc = "done" /\ req[p].ep = "top"
    /\ req[p].open /\ req[p].gate = "open"
    /\ req[p].http.status = 200 /\ req[p].res.kind = "hit"
    /\ Count(req[p].log, "upstream") = 0
    /\ cb.state = "open" /\ cb.failures >= CIRCUIT_BREAKER_THRESHOLD

\* requests miss the cache: nothing is cached and no store is pending
AllMiss == puts = {} /\ \A k \in scope : cache[k] = NoEntry

\* C30: the breaker does not stay open once the upstream has recovered.
\* When requests keep arriving, miss the cache and are answered with 2xx
\* from the end of the outage on, an open breaker is followed by the
\* state closed with failures = 0.
C30_EventuallyCloses ==
  (cb.state = "open" /\ AllMiss) ~> (cb.state = "closed" /\ cb.failures = 0)

\* after the recovery window the request admitted by the half-open
\* breaker was answered with 2xx and closed it
C30_Witness ==
  \E p \in Slots :
    /\ req[p].pc = "read" /\ req[p].gate = "half-open" /\ req[p].settled = "half-open"
    /\ Ok(req[p].up)
    /\ now - cb.lastFailure > CIRCUIT_BREAKER_RECOVERY_MS
    /\ cb.state = "closed" /\ cb.failures = 0


====
